---- MODULE Spec2Model ----
(***************************************************************************)
(* Model of golang/models/order.go: the package init() (initMongo,          *)
(* initAMQP), AddOrderToMongoDB and AddOrderToAMQP with its two variants,   *)
(* addOrderToAMQP091 and addOrderToAMQP10.                                  *)
(*                                                                         *)
(* The exported functions are called by request handlers, one goroutine     *)
(* per request, so their bodies interleave.  Each body is cut at its        *)
(* accesses to package-level variables and at its blocking library calls;   *)
(* everything between two cuts touches only locals and is one step.         *)
(* The results of the library calls (mgo, amqp) are chosen by the           *)
(* environment.  log.Fatal is Print followed by os.Exit(1): the statements  *)
(* that follow it in the source are never executed, and deferred calls do   *)
(* not run.                                                                 *)
(*                                                                         *)
(* The package variables mongoDBSessionCopy and mongoDBSessionError are     *)
(* written and read without synchronisation.  A read that races with the    *)
(* writes of other goroutines returns the value one of them wrote; the      *)
(* interleaving of the steps produces each of these outcomes.               *)
(***************************************************************************)
EXTENDS Integers, Sequences, FiniteSets, Bags, TLC

\* Number of goroutines calling the exported functions.
NumCallers == 2
\* Total number of calls of the exported functions in one process.
MaxCalls == 2

Callers == 1..NumCallers

(***************************************************************************)
(* Conversions.                                                             *)
(***************************************************************************)
\* One decimal digit as text.
Digit(d) ==
  CASE d = 0 -> "0" [] d = 1 -> "1" [] d = 2 -> "2" [] d = 3 -> "3"
    [] d = 4 -> "4" [] d = 5 -> "5" [] d = 6 -> "6" [] d = 7 -> "7"
    [] d = 8 -> "8" [] d = 9 -> "9"

\* strconv.Itoa for the non-negative integers the code formats.
RECURSIVE Itoa(_)
Itoa(n) == IF n < 10 THEN Digit(n) ELSE Itoa(n \div 10) \o Digit(n % 10)

\* One hexadecimal digit as text (lower case, as encoding/hex writes it).
HexDigit(d) ==
  IF d < 10 THEN Digit(d)
  ELSE CASE d = 10 -> "a" [] d = 11 -> "b" [] d = 12 -> "c"
         [] d = 13 -> "d" [] d = 14 -> "e" [] d = 15 -> "f"

\* ObjectId.Hex(): two hexadecimal digits per byte.
RECURSIVE Hex(_)
Hex(bytes) ==
  IF bytes = <<>> THEN ""
  ELSE HexDigit(Head(bytes) \div 16) \o HexDigit(Head(bytes) % 16) \o Hex(Tail(bytes))

\* bson.NewObjectId(): 4 bytes of time, 3 of machine id, 2 of process id and
\* a 3-byte big-endian counter incremented by every call.
NewObjectId(counter) ==
  <<95, 141, 13, 85>> \o <<161, 178, 195>> \o <<4, 210>>
    \o << (counter \div 65536) % 256, (counter \div 256) % 256, counter % 256 >>

\* rand.Intn(n): some integer of [0, n).
Intn(n) == 0..(n - 1)

\* Off-by-one variant of random: the upper end included.
random_inclusive(min, max) == min..max

\* random(min, max): the set of values rand.Intn(max-min) + min can take.
random(min, max) == { k + min : k \in Intn(max - min) }

(***************************************************************************)
(* Literals of the source.                                                  *)
(***************************************************************************)
ProductPartitions == 11
QueuePartitions == 3
StatusOpen == "Open"
PlaceholderSource == "string"
QueueName == "order"

(***************************************************************************)
(* Inputs.                                                                  *)
(***************************************************************************)
\* An order as a caller builds it.
Order(id, status, source) ==
  [ ID |-> id, EmailAddress |-> "a@b.com", PreferredLanguage |-> "en",
    Product |-> "widget", Total |-> 42, Source |-> source, Status |-> status ]

\* Orders a caller may pass in: every kind of Source, with and without an
\* identifier and a status of the caller's own.
InputOrders ==
  { Order("", "Pending", ""), Order("caller-id", "Shipped", "string"),
    Order("", "Open", "web") }

\* Values of the SOURCE environment variable.
EnvSources == {"aks"}
\* TEAMNAME and the path of AMQPURL.
TeamName == "team1"
AmqpUrlPath == "/orders-hub"

NoOrder ==
  [ ID |-> "", EmailAddress |-> "", PreferredLanguage |-> "", Product |-> "",
    Total |-> 0, Source |-> "", Status |-> "" ]

VARIABLES
  env,                 \* what init() reads from the environment: isEventHub,
                       \* customTelemetryClient (non-nil?), SOURCE
  phase,               \* where the process is: the steps of init(), then
                       \* "serving", or "exited" after os.Exit
  exitAt,              \* the statement that exited the process ("" if none)
  fatalCall,           \* the call whose statement exited the process (0: init)
  queueType,           \* package variable queueType
  eventHubName,        \* package variable eventHubName
  mongoDBSession,      \* package variable: a session id, 0 for nil
  mongoDBSessionCopy,  \* package variable: a session id, 0 for nil
  mongoDBCollection,   \* package variable: the session the collection is
                       \* bound to, 0 for nil
  mongoDBSessionError, \* package variable: "nil" or an error
  sessions,            \* every mgo session made: who made it, how often it
                       \* was closed, whether another call closed it
  shardResult,         \* what the shardCollection command returned
  conns,               \* every AMQP connection dialled
  sent,                \* the messages handed to the broker (a bag)
  telemetry,           \* what customTelemetryClient tracked (a bag)
  challengeEvents,     \* number of challengeTelemetryClient.TrackEvent calls
  stored,              \* identifiers of the documents inserted
  objectIdCounter,     \* bson's object id counter
  ncalls,              \* calls started so far
  fr                   \* each caller's frame: position and locals

vars ==
  << env, phase, exitAt, fatalCall, queueType, eventHubName,
     mongoDBSession, mongoDBSessionCopy, mongoDBCollection,
     mongoDBSessionError, sessions, shardResult, conns, sent, telemetry,
     challengeEvents, stored, objectIdCounter, ncalls, fr >>

mongoVars ==
  << mongoDBSession, mongoDBSessionCopy, mongoDBCollection,
     mongoDBSessionError, sessions, shardResult, stored, objectIdCounter >>
amqpVars == << conns, sent >>
initVars == << env, queueType, eventHubName >>

\* A caller that is in no call.
IdleFrame ==
  [ pc |-> "idle", op |-> "none", call |-> 0, orderIn |-> NoOrder,
    order |-> NoOrder, success |-> FALSE, deferred |-> 0, copy |-> 0,
    insertErr |-> "none", conn |-> 0, declareErr |-> FALSE,
    declared |-> "", queueName |-> "", attempted |-> FALSE, target |-> "",
    body |-> "" ]

Init ==
  /\ env \in [ isEventHub : BOOLEAN, customTelemetryClient : BOOLEAN,
               SOURCE : EnvSources ]
  /\ phase = "initMongo.parse"
  /\ exitAt = ""
  /\ fatalCall = 0
  /\ queueType = ""
  /\ eventHubName = ""
  /\ mongoDBSession = 0
  /\ mongoDBSessionCopy = 0
  /\ mongoDBCollection = 0
  /\ mongoDBSessionError = "nil"
  /\ sessions = <<>>
  /\ shardResult = "none"
  /\ conns = <<>>
  /\ sent = EmptyBag
  /\ telemetry = EmptyBag
  /\ challengeEvents = 0
  /\ stored = {}
  /\ objectIdCounter = 0
  /\ ncalls = 0
  /\ fr = [ p \in Callers |-> IdleFrame ]

(***************************************************************************)
(* Telemetry and process exit.                                              *)
(***************************************************************************)
\* log.Fatal(...): prints and calls os.Exit(1).
LogFatal(site, call) ==
  /\ phase' = "exited"
  /\ exitAt' = site
  /\ fatalCall' = call

Running == UNCHANGED << phase, exitAt, fatalCall >>

\* One record of the operator's telemetry client.
Record(kind, call, name, data, success) ==
  [ kind |-> kind, call |-> call, name |-> name, data |-> data,
    success |-> success ]

\* Variant of TrackDependency that tracks whether or not a client is set.
TrackDependency_unguarded(call, name, data, success) ==
  SetToBag({ Record("dependency", call, name, data, success) })

\* "if customTelemetryClient != nil { ... customTelemetryClient.Track(dependency) }":
\* the records one such block adds.
TrackDependency(call, name, data, success) ==
  IF env.customTelemetryClient
  THEN SetToBag({ Record("dependency", call, name, data, success) })
  ELSE EmptyBag

\* customTelemetryClient.TrackException(err), as initMongo calls it inside
\* the dependency block.
TrackException(call, name, err) ==
  IF env.customTelemetryClient
  THEN SetToBag({ Record("exception", call, name, err, FALSE) })
  ELSE EmptyBag

\* session.Copy(): a new session, made by `call`.
NewSession(call) == [ creator |-> call, closes |-> 0, foreign |-> FALSE ]

\* session.Close() of session s, run by `call`.
CloseSession(ss, s, call) ==
  [ ss EXCEPT ![s] = [ @ EXCEPT !.closes = @ + 1,
                                !.foreign = @ \/ (ss[s].creator # call) ] ]

(***************************************************************************)
(* init(): initMongo, then initAMQP.                                        *)
(***************************************************************************)
\* The dependency type both branches of "if isCosmosDb" track the store
\* under; they differ in the display name only.
StoreName == "MongoDB"

\* initMongo, url.Parse(mongoURL).  A URL that does not parse ends the
\* process in log.Fatal.
initMongo_parse ==
  /\ phase = "initMongo.parse"
  /\ \/ /\ phase' = "initMongo.dial"
        /\ UNCHANGED << exitAt, fatalCall >>
     \/ LogFatal("initMongo.parse", 0)
  /\ UNCHANGED << env, queueType, eventHubName, mongoVars, amqpVars,
                  telemetry, challengeEvents, ncalls, fr >>

\* initMongo, mgo.DialWithInfo up to SetSafe(nil).  A failed dial ends the
\* process in log.Fatal, before the telemetry block and the os.Exit(1) that
\* follow it.  A successful dial tracks the (nil) error and the dependency,
\* then copies the session into mongoDBSessionCopy.
initMongo_dial ==
  /\ phase = "initMongo.dial"
  /\ \/ /\ mongoDBSession' = 1
        /\ mongoDBSessionError' = "nil"
        /\ telemetry' = telemetry (+) TrackException(0, StoreName, "nil")
                                  (+) TrackDependency(0, StoreName, "Create session", TRUE)
        /\ sessions' = << NewSession(0), NewSession(0) >>
        /\ mongoDBSessionCopy' = 2
        /\ phase' = "initMongo.shard"
        /\ UNCHANGED << exitAt, fatalCall >>
     \/ /\ mongoDBSessionError' = "dial error"
        /\ LogFatal("initMongo.dial", 0)
        /\ UNCHANGED << mongoDBSession, telemetry, sessions, mongoDBSessionCopy >>
  /\ UNCHANGED << initVars, mongoDBCollection, shardResult, stored,
                  objectIdCounter, amqpVars, challengeEvents, ncalls, fr >>

\* What the shardCollection command can return.
ShardOutcomes == {"ok", "already sharded", "not supported", "connectivity"}

\* Variant of ShardErrorIsFatal that ends startup on a connectivity error.
ShardErrorIsFatal_connectivity(outcome) == outcome = "connectivity"

\* "if err != nil { log.Println(...) } else { log.Println(...) }": no error of
\* the command ends the process.
ShardErrorIsFatal(outcome) == FALSE

\* initMongo, the shardCollection command and the collection handle.
initMongo_shard ==
  /\ phase = "initMongo.shard"
  /\ \E outcome \in ShardOutcomes :
       /\ shardResult' = outcome
       /\ IF ShardErrorIsFatal(outcome)
          THEN /\ LogFatal("initMongo.shard", 0)
               /\ UNCHANGED mongoDBCollection
          ELSE /\ mongoDBCollection' = mongoDBSessionCopy
               /\ phase' = "initAMQP"
               /\ UNCHANGED << exitAt, fatalCall >>
  /\ UNCHANGED << initVars, mongoDBSession, mongoDBSessionCopy,
                  mongoDBSessionError, sessions, stored, objectIdCounter,
                  amqpVars, telemetry, challengeEvents, ncalls, fr >>

\* initAMQP: url.Parse(amqpURL), queueType and eventHubName.
initAMQP ==
  /\ phase = "initAMQP"
  /\ \/ /\ phase' = "serving"
        /\ queueType' = IF env.isEventHub THEN "EventHub" ELSE "RabbitMQ"
        /\ eventHubName' = IF env.isEventHub THEN AmqpUrlPath ELSE eventHubName
        /\ UNCHANGED << exitAt, fatalCall >>
     \/ /\ LogFatal("initAMQP.parse", 0)
        /\ UNCHANGED << queueType, eventHubName >>
  /\ UNCHANGED << env, mongoVars, amqpVars, telemetry, challengeEvents,
                  ncalls, fr >>

(***************************************************************************)
(* AddOrderToMongoDB.                                                       *)
(***************************************************************************)
\* A caller may start a call.
CanCall(p) ==
  /\ phase = "serving"
  /\ fr[p].pc \in {"idle", "returned"}
  /\ ncalls < MaxCalls

\* "if order.Source == "" || order.Source == "string" { order.Source =
\* os.Getenv("SOURCE") }".
DefaultSource(source) ==
  IF source = "" \/ source = PlaceholderSource THEN env.SOURCE ELSE source

\* The order as the function rewrites it: partition label, identifier,
\* status and source.
Populate(order, partition, id) ==
  [ order EXCEPT !.Product = "product-" \o Itoa(partition),
                 !.ID = Hex(id),
                 !.Status = StatusOpen,
                 !.Source = DefaultSource(order.Source) ]

\* From the entry to the statement before the defer: the session copy is
\* stored in the package variable and the local order is rewritten.
AddOrderToMongoDB_copy(p) ==
  /\ CanCall(p)
  /\ \E order \in InputOrders, partition \in random(0, ProductPartitions) :
       /\ sessions' = Append(sessions, NewSession(ncalls + 1))
       /\ mongoDBSessionCopy' = Len(sessions) + 1
       /\ objectIdCounter' = (objectIdCounter + 1) % 16777216
       /\ fr' = [ fr EXCEPT ![p] =
                    [ IdleFrame EXCEPT !.pc = "mongo.defer", !.op = "persist",
                                       !.call = ncalls + 1, !.orderIn = order,
                                       !.copy = Len(sessions) + 1,
                                       !.order = Populate(order, partition,
                                                   NewObjectId(objectIdCounter)) ] ]
  /\ ncalls' = ncalls + 1
  /\ Running
  /\ UNCHANGED << initVars, mongoDBSession, mongoDBCollection,
                  mongoDBSessionError, shardResult, stored, amqpVars,
                  telemetry, challengeEvents >>

\* "defer mongoDBSessionCopy.Close()": the receiver is the value the package
\* variable holds when the defer statement runs.
AddOrderToMongoDB_defer(p) ==
  /\ phase = "serving"
  /\ fr[p].pc = "mongo.defer"
  /\ fr' = [ fr EXCEPT ![p].deferred = mongoDBSessionCopy,
                       ![p].pc = "mongo.insert" ]
  /\ Running
  /\ UNCHANGED << initVars, mongoVars, amqpVars, telemetry, challengeEvents,
                  ncalls >>

\* "mongoDBSessionError = mongoDBCollection.Insert(order)": the result goes
\* to the package variable.
AddOrderToMongoDB_insert(p) ==
  /\ phase = "serving"
  /\ fr[p].pc = "mongo.insert"
  /\ \/ /\ mongoDBSessionError' = "nil"
        /\ stored' = stored \cup { fr[p].order.ID }
        /\ fr' = [ fr EXCEPT ![p].insertErr = "nil", ![p].pc = "mongo.check" ]
     \/ /\ mongoDBSessionError' = "insert error"
        /\ stored' = stored
        /\ fr' = [ fr EXCEPT ![p].insertErr = "insert error",
                             ![p].pc = "mongo.check" ]
  /\ Running
  /\ UNCHANGED << initVars, mongoDBSession, mongoDBSessionCopy,
                  mongoDBCollection, sessions, shardResult, objectIdCounter,
                  amqpVars, telemetry, challengeEvents, ncalls >>

\* "if mongoDBSessionError != nil { log.Fatal(...) ... } else { success =
\* true }": the test reads the package variable.  Then the challenge event,
\* the dependency record, the return and the deferred Close.
AddOrderToMongoDB_return(p) ==
  /\ phase = "serving"
  /\ fr[p].pc = "mongo.check"
  /\ IF mongoDBSessionError # "nil"
     THEN /\ LogFatal("mongo.insert", fr[p].call)
          /\ UNCHANGED << fr, challengeEvents, telemetry, sessions >>
     ELSE /\ challengeEvents' = challengeEvents + 1
          /\ telemetry' = telemetry (+) TrackDependency(fr[p].call, StoreName,
                                                        "Insert order", TRUE)
          /\ sessions' = CloseSession(sessions, fr[p].deferred, fr[p].call)
          /\ fr' = [ fr EXCEPT ![p].success = TRUE, ![p].pc = "returned" ]
          /\ Running
  /\ UNCHANGED << initVars, mongoDBSession, mongoDBSessionCopy,
                  mongoDBCollection, mongoDBSessionError, shardResult, stored,
                  objectIdCounter, amqpVars, ncalls >>

(***************************************************************************)
(* AddOrderToAMQP and its two variants.                                     *)
(***************************************************************************)
\* Identifiers of the orders a caller may publish: one of its own making, or
\* the one its last call left in its frame.
PublishIDs(p) == { "caller-id", fr[p].order.ID }

\* fmt.Sprintf("{{'order': '%s', 'source': '%s'}}", order.ID, teamName).
Body(id) == "{{'order': '" \o id \o "', 'source': '" \o TeamName \o "'}}"

\* The frame of a call that has just dialled connection c.
PublishFrame(pc, id, c) ==
  [ IdleFrame EXCEPT !.pc = pc, !.op = "publish", !.call = ncalls + 1,
                     !.orderIn = [ NoOrder EXCEPT !.ID = id ],
                     !.order = [ NoOrder EXCEPT !.ID = id ],
                     !.body = Body(id), !.conn = c ]

\* A message handed to the broker.
Message(call, variant, dest, body) ==
  [ call |-> call, variant |-> variant, dest |-> dest, body |-> body ]

\* addOrderToAMQP091, amqp091.Dial: the connection goes to a local that
\* shadows the package variable.  A failure ends the process in log.Fatal.
addOrderToAMQP091_dial(p, id) ==
  \/ /\ conns' = Append(conns, [ call |-> ncalls + 1, variant |-> "amqp091",
                                 open |-> TRUE ])
     /\ fr' = [ fr EXCEPT ![p] = PublishFrame("091.channel", id, Len(conns) + 1) ]
     /\ ncalls' = ncalls + 1
     /\ Running
  \/ /\ LogFatal("amqp091.dial", ncalls + 1)
     /\ fr' = [ fr EXCEPT ![p] = PublishFrame("091.dial", id, 0) ]
     /\ ncalls' = ncalls + 1
     /\ UNCHANGED conns

\* addOrderToAMQP10, amqp10.Dial and "defer amqp10Client.Close()".
addOrderToAMQP10_dial(p, id) ==
  \/ /\ conns' = Append(conns, [ call |-> ncalls + 1, variant |-> "amqp10",
                                 open |-> TRUE ])
     /\ fr' = [ fr EXCEPT ![p] =
                  [ PublishFrame("10.session", id, Len(conns) + 1)
                      EXCEPT !.deferred = Len(conns) + 1 ] ]
     /\ ncalls' = ncalls + 1
     /\ Running
  \/ /\ LogFatal("amqp10.dial", ncalls + 1)
     /\ fr' = [ fr EXCEPT ![p] = PublishFrame("10.dial", id, 0) ]
     /\ ncalls' = ncalls + 1
     /\ UNCHANGED conns

\* "if isEventHub": the branch AddOrderToAMQP takes.
UseEventHub == env.isEventHub

\* AddOrderToAMQP: one variant, by isEventHub.
AddOrderToAMQP(p) ==
  /\ CanCall(p)
  /\ \E id \in PublishIDs(p) :
       IF UseEventHub
       THEN addOrderToAMQP10_dial(p, id)
       ELSE addOrderToAMQP091_dial(p, id)
  /\ UNCHANGED << initVars, mongoVars, sent, telemetry, challengeEvents >>

\* addOrderToAMQP091, amqp091Client.Channel().
addOrderToAMQP091_channel(p) ==
  /\ phase = "serving"
  /\ fr[p].pc = "091.channel"
  /\ \/ /\ fr' = [ fr EXCEPT ![p].pc = "091.declare" ]
        /\ Running
     \/ /\ LogFatal("amqp091.channel", fr[p].call)
        /\ UNCHANGED fr
  /\ UNCHANGED << initVars, mongoVars, amqpVars, telemetry, challengeEvents,
                  ncalls >>

\* addOrderToAMQP091, QueueDeclare("order", ...): the queue goes to a local;
\* the error is not tested and the next statement overwrites it.  A failed
\* declare returns the zero Queue, whose Name is empty.
addOrderToAMQP091_declare(p) ==
  /\ phase = "serving"
  /\ fr[p].pc = "091.declare"
  /\ \/ fr' = [ fr EXCEPT ![p].declared = QueueName,
                          ![p].queueName = QueueName,
                          ![p].pc = "091.publish" ]
     \/ fr' = [ fr EXCEPT ![p].declared = QueueName,
                          ![p].queueName = "",
                          ![p].declareErr = TRUE,
                          ![p].pc = "091.publish" ]
  /\ Running
  /\ UNCHANGED << initVars, mongoVars, amqpVars, telemetry, challengeEvents,
                  ncalls >>

\* What one successful amqp091Channel.Publish("", amqp091Queue.Name, ...)
\* hands to the broker.
Publish091(call, key, body) ==
  SetToBag({ Message(call, "amqp091", key, body) })

\* addOrderToAMQP091, Publish to the default exchange with the queue's name
\* as routing key.  A failure ends the process in log.Fatal; otherwise the
\* dependency record and the return.  The connection and the channel are
\* not closed.
addOrderToAMQP091_publish(p) ==
  /\ phase = "serving"
  /\ fr[p].pc = "091.publish"
  /\ \/ /\ sent' = sent (+) Publish091(fr[p].call, fr[p].queueName, fr[p].body)
        /\ telemetry' = telemetry (+) TrackDependency(fr[p].call, "AMQP",
                                                      "Send message", TRUE)
        /\ fr' = [ fr EXCEPT ![p].attempted = TRUE, ![p].success = TRUE,
                             ![p].pc = "returned" ]
        /\ Running
     \/ /\ LogFatal("amqp091.publish", fr[p].call)
        /\ fr' = [ fr EXCEPT ![p].attempted = TRUE ]
        /\ UNCHANGED << sent, telemetry >>
  /\ UNCHANGED << initVars, mongoVars, conns, challengeEvents, ncalls >>

\* addOrderToAMQP10, amqp10Client.NewSession().
addOrderToAMQP10_session(p) ==
  /\ phase = "serving"
  /\ fr[p].pc = "10.session"
  /\ \/ /\ fr' = [ fr EXCEPT ![p].pc = "10.sender" ]
        /\ Running
     \/ /\ LogFatal("amqp10.session", fr[p].call)
        /\ UNCHANGED fr
  /\ UNCHANGED << initVars, mongoVars, amqpVars, telemetry, challengeEvents,
                  ncalls >>

\* fmt.Sprintf("%s/partitions/%s", eventHubName, partitionKey).
TargetAddress(partition) == eventHubName \o "/partitions/" \o Itoa(partition)

\* addOrderToAMQP10, the partition, the target address and NewSender.
addOrderToAMQP10_sender(p) ==
  /\ phase = "serving"
  /\ fr[p].pc = "10.sender"
  /\ \E partition \in random(0, QueuePartitions) :
       \/ /\ fr' = [ fr EXCEPT ![p].target = TargetAddress(partition),
                               ![p].pc = "10.send" ]
          /\ Running
       \/ /\ LogFatal("amqp10.sender", fr[p].call)
          /\ fr' = [ fr EXCEPT ![p].target = TargetAddress(partition) ]
  /\ UNCHANGED << initVars, mongoVars, amqpVars, telemetry, challengeEvents,
                  ncalls >>

\* addOrderToAMQP10, sender.Send under the 5 s timeout, cancel() and
\* sender.Close().  A failure (the timeout included) ends the process in
\* log.Fatal; otherwise the dependency record, the return and the deferred
\* amqp10Client.Close().
addOrderToAMQP10_send(p) ==
  /\ phase = "serving"
  /\ fr[p].pc = "10.send"
  /\ \/ /\ sent' = sent (+) SetToBag({ Message(fr[p].call, "amqp10",
                                               fr[p].target, fr[p].body) })
        /\ telemetry' = telemetry (+) TrackDependency(fr[p].call, "AMQP",
                                                      "Send message", TRUE)
        /\ conns' = [ conns EXCEPT ![fr[p].deferred].open = FALSE ]
        /\ fr' = [ fr EXCEPT ![p].attempted = TRUE, ![p].success = TRUE,
                             ![p].pc = "returned" ]
        /\ Running
     \/ /\ LogFatal("amqp10.send", fr[p].call)
        /\ fr' = [ fr EXCEPT ![p].attempted = TRUE ]
        /\ UNCHANGED << sent, telemetry, conns >>
  /\ UNCHANGED << initVars, mongoVars, challengeEvents, ncalls >>

(***************************************************************************)
(* The process.                                                             *)
(***************************************************************************)
Next ==
  \/ initMongo_parse
  \/ initMongo_dial
  \/ initMongo_shard
  \/ initAMQP
  \/ \E p \in Callers : AddOrderToMongoDB_copy(p)
  \/ \E p \in Callers : AddOrderToMongoDB_defer(p)
  \/ \E p \in Callers : AddOrderToMongoDB_insert(p)
  \/ \E p \in Callers : AddOrderToMongoDB_return(p)
  \/ \E p \in Callers : AddOrderToAMQP(p)
  \/ \E p \in Callers : addOrderToAMQP091_channel(p)
  \/ \E p \in Callers : addOrderToAMQP091_declare(p)
  \/ \E p \in Callers : addOrderToAMQP091_publish(p)
  \/ \E p \in Callers : addOrderToAMQP10_session(p)
  \/ \E p \in Callers : addOrderToAMQP10_sender(p)
  \/ \E p \in Callers : addOrderToAMQP10_send(p)

Spec == Init /\ [][Next]_vars

(***************************************************************************)
(* Properties.                                                              *)
(***************************************************************************)
\* Caller p's last call was of `op` and has returned to its caller.
Returned(p, op) == fr[p].pc = "returned" /\ fr[p].op = op

\* No exported function is in progress.
Quiet == \A p \in Callers : fr[p].pc \in {"idle", "returned"}

\* Number of messages call c handed to the broker.
MessagesOf(c) ==
  BagCardinality([ m \in { x \in BagToSet(sent) : x.call = c } |-> sent[m] ])

\* Number of telemetry records of `kind` tracked for call c.
RecordsOf(kind, c) ==
  BagCardinality([ r \in { x \in BagToSet(telemetry) :
                             x.kind = kind /\ x.call = c } |-> telemetry[r] ])

\* The labels product-<N>, 0 <= N < 11.
ProductLabels ==
  { "product-0", "product-1", "product-2", "product-3", "product-4",
    "product-5", "product-6", "product-7", "product-8", "product-9",
    "product-10" }

\* The addresses <eventHubName>/partitions/<N>, 0 <= N < 3.
PartitionAddresses ==
  { AmqpUrlPath \o "/partitions/" \o n : n \in {"0", "1", "2"} }

\* The fatal failures: the store connection at startup; the queue connect,
\* the channel or session, and the publish during a publish call.
FatalSites ==
  { "initMongo.dial", "amqp091.dial", "amqp091.channel", "amqp091.publish",
    "amqp10.dial", "amqp10.session", "amqp10.send" }

\* C1: a persist call whose insert failed does not end the process (it
\* returns to its caller with identifier, product and status populated).
C1_InsertFailureNotFatal ==
  \A p \in Callers :
    (fr[p].op = "persist" /\ fr[p].insertErr = "insert error")
      => /\ ~(phase = "exited" /\ fatalCall = fr[p].call)
         /\ fr[p].order.ID # "" /\ fr[p].order.Product # ""
         /\ fr[p].order.Status # ""

\* C2: the order a successful persist returns has a non-empty identifier, a
\* product label product-<N> with 0 <= N < 11, status "Open" whatever the
\* input status, the SOURCE default as source when the input source was
\* empty or "string" and the input source otherwise, and the input's email
\* address, preferred language and total.
C2_PersistRewritesOrder ==
  \A p \in Callers :
    Returned(p, "persist") =>
      LET in == fr[p].orderIn
          out == fr[p].order
      IN  /\ out.ID # ""
          /\ out.Product \in ProductLabels
          /\ out.Status = "Open"
          /\ out.Source = IF in.Source \in {"", "string"}
                          THEN env.SOURCE ELSE in.Source
          /\ out.EmailAddress = in.EmailAddress
          /\ out.PreferredLanguage = in.PreferredLanguage
          /\ out.Total = in.Total

\* C2, a case: a persist returned for an input with the placeholder source,
\* a status of the caller's and an identifier of the caller's, and drew the
\* last partition.
C2_Witness ==
  \E p \in Callers :
    /\ Returned(p, "persist")
    /\ fr[p].insertErr = "nil"
    /\ fr[p].orderIn.Source = "string"
    /\ fr[p].orderIn.Status = "Shipped"
    /\ fr[p].orderIn.ID = "caller-id"
    /\ fr[p].order.Product = "product-10"
    /\ fr[p].order.Source = "aks"

\* C3, as stated: a publish call that returned has sent exactly one message
\* and recorded exactly one dependency telemetry record.
C3_OneMessageOneDependency ==
  \A p \in Callers :
    Returned(p, "publish") =>
      /\ MessagesOf(fr[p].call) = 1
      /\ RecordsOf("dependency", fr[p].call) = 1

\* C3, amended: a publish call that returned has sent exactly one message,
\* and has recorded exactly one dependency telemetry record when the
\* operator's telemetry client is configured and none when it is not.
C3_OneMessageDependencyIfClient ==
  \A p \in Callers :
    Returned(p, "publish") =>
      /\ MessagesOf(fr[p].call) = 1
      /\ RecordsOf("dependency", fr[p].call)
           = IF env.customTelemetryClient THEN 1 ELSE 0

\* C3, a case: a publish call returned in a process without the operator's
\* telemetry client, having sent its message and tracked no dependency.
C3_Witness ==
  \E p \in Callers :
    /\ Returned(p, "publish")
    /\ ~env.customTelemetryClient
    /\ MessagesOf(fr[p].call) = 1
    /\ RecordsOf("dependency", fr[p].call) = 0

\* C4: the variant is the one isEventHub selects and no other: with
\* EventHub every message goes to <eventHubName>/partitions/<N>, 0 <= N < 3;
\* without, the call declares the queue "order" and publishes to it.
C4_VariantByFlag ==
  LET variant == IF env.isEventHub THEN "amqp10" ELSE "amqp091"
  IN  /\ \A i \in 1..Len(conns) : conns[i].variant = variant
      /\ \A m \in BagToSet(sent) :
           /\ m.variant = variant
           /\ m.dest \in (IF env.isEventHub THEN PartitionAddresses
                                            ELSE {"order"})
      /\ \A p \in Callers : fr[p].declared \in {"", "order"}

\* C5: with the operator's telemetry client configured, a process that has
\* ended on a fatal failure of the store connection or of the queue has
\* tracked an exception for that failure before (and, for the store
\* connection, a dependency record with success = false).
C5_FatalReportedFirst ==
  (phase = "exited" /\ env.customTelemetryClient /\ exitAt \in FatalSites)
    => /\ \E r \in BagToSet(telemetry) :
            r.kind = "exception" /\ r.call = fatalCall /\ r.data # "nil"
       /\ exitAt = "initMongo.dial"
            => \E r \in BagToSet(telemetry) :
                 r.kind = "dependency" /\ r.call = 0 /\ ~r.success

\* C6: the process opens at most one queue connection however many publish
\* calls it serves, and no connection is open without a call in progress
\* that holds it.
C6_SingleQueueConnection ==
  phase = "serving" =>
    /\ Len(conns) <= 1
    /\ \A i \in 1..Len(conns) :
         conns[i].open =>
           \E p \in Callers :
             fr[p].conn = i /\ fr[p].pc \notin {"idle", "returned"}

\* C7: a call whose QueueDeclare failed does not attempt the publish, does
\* not report success and does not return.
C7_DeclareFailureFatal ==
  \A p \in Callers :
    fr[p].declareErr =>
      /\ ~fr[p].attempted
      /\ ~fr[p].success
      /\ fr[p].pc # "returned"

\* C8, as stated: a shardCollection failure because the collection is
\* already sharded or sharding is not supported leaves startup going, with
\* the collection handle set; a connectivity failure of that command ends
\* startup.
C8_ShardConnectivityFatal ==
  /\ shardResult \in {"already sharded", "not supported"}
       => (mongoDBCollection # 0 /\ exitAt # "initMongo.shard")
  /\ shardResult = "connectivity"
       => (phase = "exited" /\ exitAt = "initMongo.shard")

\* C8, amended: no failure of the shardCollection command, a connectivity
\* failure included, ends startup: initMongo goes on to set the collection
\* handle and returns.
C8_ShardFailureSwallowed ==
  shardResult \in {"already sharded", "not supported", "connectivity"}
    => /\ mongoDBCollection # 0
       /\ exitAt # "initMongo.shard"
       /\ phase \notin {"initMongo.parse", "initMongo.dial", "initMongo.shard"}

\* C8, a case: the command failed on connectivity and the process serves.
C8_Witness ==
  shardResult = "connectivity" /\ phase = "serving" /\ mongoDBCollection # 0

\* C9: once the persist calls have returned, every session copy one of them
\* made has been closed exactly once, and by the call that made it.
C9_CopyClosedOnce ==
  (phase = "serving" /\ Quiet) =>
    \A i \in 1..Len(sessions) :
      sessions[i].creator # 0 =>
        (sessions[i].closes = 1 /\ ~sessions[i].foreign)

\* C10: the success a persist call reports is the outcome of its own
\* insert: a call whose insert failed does not report success, and a call
\* whose insert succeeded does not take the failure path.
C10_SuccessIsOwnOutcome ==
  \A p \in Callers :
    fr[p].op = "persist" =>
      /\ fr[p].success => fr[p].insertErr = "nil"
      /\ (phase = "exited" /\ exitAt = "mongo.insert" /\ fatalCall = fr[p].call)
           => fr[p].insertErr = "insert error"

====
